---- MODULE Spec2Model ----
(***************************************************************************)
(* Wilayah-Indonesia scraper (src/main.py): the session manager            *)
(* (GetSession: CSRF token lifecycle, retrying make_request) and the       *)
(* hierarchy crawler (GetData: scrape_all over provinsi / kabupaten /      *)
(* kecamatan / desa), run by main().                                       *)
(*                                                                         *)
(* Time is kept as the number of seconds elapsed since the last successful *)
(* token refresh (time_elapsed, what check_token_expiry computes from      *)
(* datetime.now() - last_token_refresh).  It is clamped at token_lifetime, *)
(* the only value it is ever compared with.                                *)
(***************************************************************************)
EXTENDS Integers, Sequences, FiniteSets, TLC

VARIABLES
    pc,             \* position of main() / scrape_all()
    headers,        \* session.headers['X-CSRF-TOKEN'] (NoHeader when absent)
    time_elapsed,   \* seconds since last_token_refresh, Never when it is None
    rq,             \* the frame of the make_request call in progress
    faults,         \* number of failures the environment has produced so far
    provinces,      \* scrape_all: the map returned by get_provinces
    cities,         \* scrape_all: the map returned by get_cities
    districts,      \* scrape_all: the map returned by get_districts
    pi,             \* scrape_all: position in the provinces loop
    ci,             \* scrape_all: position in the cities loop
    di,             \* scrape_all: position in the districts loop
    province_data,  \* scrape_all: the province node under construction
    city_data,      \* scrape_all: the city node under construction
    results,        \* GetData.results
    saved,          \* save_results has written the document
    exit_status,    \* the status the process exited with: <<>> while it runs
    init_refresh,   \* history: outcome of the refresh_token call of __init__
    since_issue,    \* history: seconds since a token was last stored
    sent_endpoints, \* history: endpoints a request was sent to
    called,         \* history: the make_request calls made, as <<endpoint, data>>
    failed,         \* history: the fetches that failed, as <<endpoint, data, kind>>
    last_html,      \* history: the option elements last given to parse_options
    delays          \* history: number of time.sleep(self.rate_limit) calls made

vars == <<pc, headers, time_elapsed, rq, faults, provinces, cities, districts,
          pi, ci, di, province_data, city_data, results, saved, exit_status,
          init_refresh, since_issue, sent_endpoints, called, failed, last_html,
          delays>>

(***************************************************************************)
(* Program constants                                                       *)
(***************************************************************************)
token_lifetime == 3500
retries == 3
retry_after == 10
timeout_sleep == 5
rate_limit == 1
Never == -1

(***************************************************************************)
(* Bounds of the model                                                     *)
(***************************************************************************)
\* The environment produces at most MaxFaults failures in one run (non-200
\* statuses, transport errors, empty bodies, failed token fetches, a failed
\* save).
MaxFaults == 4

\* A document given to parse_options holds at most MaxOptions option
\* elements.
MaxOptions == 3

NoHeader == "none"
Tokens == {"tokA"}
\* What the landing page yields: the GET raises, the csrf-token meta element
\* is missing, its content is empty, or it carries a token.
LandingPages == {"raise", "no_meta", "empty_content"} \cup Tokens
\* How long a response takes: no time, or a slow transfer one second short of
\* the token's lifetime (the request timeouts bound the wait for each read,
\* not the whole transfer).
Durations == {0, token_lifetime - 1}

Min(a, b) == IF a <= b THEN a ELSE b

\* d seconds pass.
Elapse(te, d) == IF te = Never THEN Never ELSE Min(te + d, token_lifetime)

(***************************************************************************)
(* The server's hierarchy.  Codes and labels are sequences of characters;  *)
(* an option is the pair of its value attribute and its text.              *)
(***************************************************************************)
Opt(v, t) == [value |-> v, text |-> t]
P11 == <<"1", "1">>
P12 == <<"1", "2">>
K1101 == <<"1", "1", "0", "1">>
K1102 == <<"1", "1", "0", "2">>
K1201 == <<"1", "2", "0", "1">>
D01 == <<"0", "1">>
D02 == <<"0", "2">>
D03 == <<"0", "3">>
Placeholder == Opt(<<"0">>, <<"P", "i", "l", "i", "h">>)
Header == Opt(<<"=", "=", "=", "X">>, <<"=", "=", "=">>)

Server(endpoint, data) ==
    CASE endpoint = "provinsi" ->
           <<Placeholder, Opt(P11, <<" ", "A", "c", "e", "h", " ">>), Opt(P12, <<"S", "u">>)>>
      [] endpoint = "kabupaten" /\ data = <<P11>> ->
           <<Header, Opt(K1101, <<"K", "a", "b", ".", " ", "A">>), Opt(K1102, <<"K", "o", "t", "a">>)>>
      [] endpoint = "kabupaten" /\ data = <<P12>> ->
           <<Placeholder, Opt(K1201, <<"N", "i", "a", "s">>)>>
      [] endpoint = "kecamatan" /\ data = <<P11, K1101>> ->
           <<Opt(D01, <<"T", "e">>), Opt(D02, <<"\n", "B", "a">>)>>
      [] endpoint = "kecamatan" /\ data = <<P11, K1102>> ->
           <<Placeholder>>
      [] endpoint = "kecamatan" /\ data = <<P12, K1201>> ->
           <<Opt(<<>>, <<"x">>), Opt(D03, <<"I", "d">>)>>
      [] endpoint = "desa" /\ data = <<P11, K1101, D01>> ->
           <<Placeholder, Opt(<<"1">>, <<"L", "a">>), Opt(<<"2">>, <<"L", "b">>)>>
      [] endpoint = "desa" /\ data = <<P11, K1101, D02>> ->
           <<Opt(<<"1">>, <<"L", "c">>), Opt(<<"1">>, <<"L", "d">>)>>
      [] OTHER -> <<>>

(***************************************************************************)
(* GetSession                                                              *)
(***************************************************************************)
\* check_token_expiry with the comparison made strict.
check_token_expiry_Strict(te) == te = Never \/ te > token_lifetime

check_token_expiry(te) == te = Never \/ te >= token_lifetime

\* refresh_token that stamps last_token_refresh before it looks for the
\* token, so a failed refresh also renews the timestamp.
refresh_token_StampsFirst(hdr, te, page, d) ==
    IF page \in Tokens
    THEN [ok |-> TRUE, headers |-> page, time_elapsed |-> 0]
    ELSE [ok |-> FALSE, headers |-> hdr, time_elapsed |-> 0]

\* refresh_token: the landing page `page` arrives after d seconds.
refresh_token(hdr, te, page, d) ==
    IF page \in Tokens
    THEN [ok |-> TRUE, headers |-> page, time_elapsed |-> 0]
    ELSE [ok |-> FALSE, headers |-> hdr, time_elapsed |-> Elapse(te, d)]

RECURSIVE Pow2(_)
Pow2(n) == IF n = 0 THEN 1 ELSE 2 * Pow2(n - 1)

NoResult == [kind |-> "pending", html |-> <<>>]
ReturnNone == [kind |-> "None", html |-> <<>>]
Raised == [kind |-> "raise", html |-> <<>>]
ReturnText(options) == [kind |-> "text", html |-> options]
ReturnEmptyText == [kind |-> "empty_text", html |-> <<>>]

\* attempt is the loop variable, sent counts the requests of this call, pre
\* tells how the expiry check went, hist holds one entry per response.
IdleReq == [phase |-> "idle", endpoint |-> "", data |-> <<>>, attempt |-> 0,
            sent |-> 0, pre |-> "", result |-> NoResult, hist |-> <<>>]

NewReq(endpoint, data, pre) ==
    [phase |-> "send", endpoint |-> endpoint, data |-> data, attempt |-> 0,
     sent |-> 0, pre |-> pre, result |-> NoResult, hist |-> <<>>]


\* The number of 419 responses among the entries h.
Count419(h) == Cardinality({i \in 1..Len(h) : h[i].status = "419"})

\* Backoff that also sleeps after the last attempt.
Backoff_AfterEveryAttempt(attempt) == <<Pow2(attempt)>>

\* The sleep that follows a failed attempt: time.sleep(2 ** attempt), unless
\* the attempt was the last one.
Backoff(attempt) == IF attempt < retries - 1 THEN <<Pow2(attempt)>> ELSE <<>>

\* SleepsAfterStatus without the 429 branch: a 429 is handled as any other
\* status.
SleepsAfterStatus_No429Branch(status, attempt, refreshed) ==
    IF status = "419" /\ ~refreshed THEN <<>> ELSE Backoff(attempt)

\* The sleeps make_request performs after a response with a non-200 status;
\* refreshed tells whether the refresh_token call of the 419 branch succeeded.
SleepsAfterStatus(status, attempt, refreshed) ==
    CASE status = "419" -> IF refreshed THEN Backoff(attempt) ELSE <<>>
      [] status = "429" -> <<retry_after>>
      [] OTHER -> Backoff(attempt)

\* RaisesOn with the last attempt taken to be number `retries`.
RaisesOn_OffByOne(attempt) == attempt = retries

\* A transport error is re-raised on the last attempt.
RaisesOn(attempt) == attempt = retries - 1

\* The sleeps after a transport error that is not re-raised.
SleepsAfterError(kind, attempt) ==
    IF kind = "Timeout" THEN <<timeout_sleep>> ELSE <<Pow2(attempt)>>

\* The for loop: the attempt that follows attempt number `attempt`.
NextAttempt(attempt) == attempt + 1

RECURSIVE Sum(_)
Sum(s) == IF s = <<>> THEN 0 ELSE Head(s) + Sum(Tail(s))

Entry(status, refresh, slept) == [status |-> status, refresh |-> refresh, slept |-> slept]

\* AfterAttempt where a first 419 whose refresh succeeded is retried without
\* advancing the attempt.
AfterAttempt_Retry419Once(frame, entry, raise) ==
    IF raise
    THEN [frame EXCEPT !.phase = "done", !.result = Raised, !.hist = Append(@, entry)]
    ELSE IF entry.status = "419" /\ entry.refresh = "ok" /\ Count419(frame.hist) = 0
    THEN [frame EXCEPT !.phase = "send", !.hist = Append(@, entry)]
    ELSE IF NextAttempt(frame.attempt) < retries
    THEN [frame EXCEPT !.phase = "send", !.attempt = NextAttempt(@),
                       !.hist = Append(@, entry)]
    ELSE [frame EXCEPT !.phase = "done", !.attempt = NextAttempt(@),
                       !.result = ReturnNone, !.hist = Append(@, entry)]

\* AfterAttempt where no 419 advances the attempt.
AfterAttempt_Retry419Always(frame, entry, raise) ==
    IF raise
    THEN [frame EXCEPT !.phase = "done", !.result = Raised, !.hist = Append(@, entry)]
    ELSE IF entry.status = "419"
    THEN [frame EXCEPT !.phase = "send", !.hist = Append(@, entry)]
    ELSE IF NextAttempt(frame.attempt) < retries
    THEN [frame EXCEPT !.phase = "send", !.attempt = NextAttempt(@),
                       !.hist = Append(@, entry)]
    ELSE [frame EXCEPT !.phase = "done", !.attempt = NextAttempt(@),
                       !.result = ReturnNone, !.hist = Append(@, entry)]

\* The frame after an attempt ended without returning: raise, go round the
\* loop, or fall out of it and return None.
AfterAttempt(frame, entry, raise) ==
    IF raise
    THEN [frame EXCEPT !.phase = "done", !.result = Raised, !.hist = Append(@, entry)]
    ELSE IF NextAttempt(frame.attempt) < retries
    THEN [frame EXCEPT !.phase = "send", !.attempt = NextAttempt(@),
                       !.hist = Append(@, entry)]
    ELSE [frame EXCEPT !.phase = "done", !.attempt = NextAttempt(@),
                       !.result = ReturnNone, !.hist = Append(@, entry)]

\* make_request_enter that goes on into the loop when the refresh failed.
make_request_enter_NoAbort(endpoint, data) ==
    /\ called' = called \cup {<<endpoint, data>>}
    /\ IF check_token_expiry(time_elapsed)
       THEN \E page \in LandingPages, d \in Durations :
              LET r == refresh_token(headers, time_elapsed, page, d) IN
              /\ r.ok \/ faults < MaxFaults
              /\ faults' = IF r.ok THEN faults ELSE faults + 1
              /\ headers' = r.headers
              /\ time_elapsed' = r.time_elapsed
              /\ since_issue' = IF page \in Tokens THEN 0 ELSE Elapse(since_issue, d)
              /\ rq' = NewReq(endpoint, data, IF r.ok THEN "refreshed" ELSE "refresh_failed")
       ELSE /\ rq' = NewReq(endpoint, data, "fresh")
            /\ UNCHANGED <<headers, time_elapsed, since_issue, faults>>

\* make_request, lines 66-68: the expiry check and the refresh before the loop.
make_request_enter(endpoint, data) ==
    /\ called' = called \cup {<<endpoint, data>>}
    /\ IF check_token_expiry(time_elapsed)
       THEN \E page \in LandingPages, d \in Durations :
              LET r == refresh_token(headers, time_elapsed, page, d) IN
              /\ r.ok \/ faults < MaxFaults
              /\ faults' = IF r.ok THEN faults ELSE faults + 1
              /\ headers' = r.headers
              /\ time_elapsed' = r.time_elapsed
              /\ since_issue' = IF page \in Tokens THEN 0 ELSE Elapse(since_issue, d)
              /\ rq' = IF r.ok
                       THEN NewReq(endpoint, data, "refreshed")
                       ELSE [NewReq(endpoint, data, "refresh_failed")
                               EXCEPT !.phase = "done", !.result = ReturnNone]
       ELSE /\ rq' = NewReq(endpoint, data, "fresh")
            /\ UNCHANGED <<headers, time_elapsed, since_issue, faults>>

crawl_vars == <<pc, provinces, cities, districts, pi, ci, di, province_data,
                city_data, results, saved, exit_status, init_refresh, called, failed>>

\* lines 72-82: session.post / session.get sends the request.
Send ==
    /\ rq.phase = "send"
    /\ rq' = [rq EXCEPT !.phase = "wait", !.sent = @ + 1]
    /\ sent_endpoints' = sent_endpoints \cup {rq.endpoint}
    /\ UNCHANGED <<crawl_vars, headers, time_elapsed, since_issue, faults>>
    /\ UNCHANGED <<last_html, delays>>

\* lines 84-85: status 200, the body is returned (it may be the empty string).
Receive200(d, empty) ==
    /\ rq.phase = "wait"
    /\ ~empty \/ faults < MaxFaults
    /\ faults' = IF empty THEN faults + 1 ELSE faults
    /\ rq' = [rq EXCEPT !.phase = "done",
                        !.result = IF empty THEN ReturnEmptyText
                                   ELSE ReturnText(Server(rq.endpoint, rq.data)),
                        !.hist = Append(@, Entry("200", "none", <<>>))]
    /\ time_elapsed' = Elapse(time_elapsed, d)
    /\ since_issue' = Elapse(since_issue, d)
    /\ UNCHANGED <<crawl_vars, headers, sent_endpoints>>
    /\ UNCHANGED <<last_html, delays>>

\* lines 86-89 and 98-99: status 419, refresh the token.
Receive419(d, page, d2) ==
    /\ rq.phase = "wait"
    /\ LET r == refresh_token(headers, Elapse(time_elapsed, d), page, d2)
           cost == IF r.ok THEN 1 ELSE 2
           slept == SleepsAfterStatus("419", rq.attempt, r.ok)
       IN /\ faults + cost <= MaxFaults
          /\ faults' = faults + cost
          /\ headers' = r.headers
          /\ time_elapsed' = Elapse(r.time_elapsed, Sum(slept))
          /\ since_issue' = Elapse(IF page \in Tokens THEN 0
                                   ELSE Elapse(since_issue, d + d2), Sum(slept))
          /\ rq' = AfterAttempt(rq, Entry("419", IF r.ok THEN "ok" ELSE "failed", slept), FALSE)
    /\ UNCHANGED <<crawl_vars, sent_endpoints>>
    /\ UNCHANGED <<last_html, delays>>

\* lines 90-94 (429) and 95-99 (any other status).
ReceiveStatus(status, d) ==
    /\ rq.phase = "wait"
    /\ faults < MaxFaults
    /\ faults' = faults + 1
    /\ LET slept == SleepsAfterStatus(status, rq.attempt, FALSE)
       IN /\ time_elapsed' = Elapse(time_elapsed, d + Sum(slept))
          /\ since_issue' = Elapse(since_issue, d + Sum(slept))
          /\ rq' = AfterAttempt(rq, Entry(status, "none", slept), FALSE)
    /\ UNCHANGED <<crawl_vars, headers, sent_endpoints>>
    /\ UNCHANGED <<last_html, delays>>

Receive429(d) == ReceiveStatus("429", d)

ReceiveOther(d) == ReceiveStatus("500", d)

\* lines 101-111: requests.exceptions.Timeout, or any other exception.
ReceiveError(kind, d) ==
    /\ rq.phase = "wait"
    /\ faults < MaxFaults
    /\ faults' = faults + 1
    /\ LET raise == RaisesOn(rq.attempt)
           slept == IF raise THEN <<>> ELSE SleepsAfterError(kind, rq.attempt)
       IN /\ time_elapsed' = Elapse(time_elapsed, d + Sum(slept))
          /\ since_issue' = Elapse(since_issue, d + Sum(slept))
          /\ rq' = AfterAttempt(rq, Entry(kind, "none", slept), raise)
    /\ UNCHANGED <<crawl_vars, headers, sent_endpoints>>
    /\ UNCHANGED <<last_html, delays>>

ReceiveTimeout(d) == ReceiveError("Timeout", d)

ReceiveException(d) == ReceiveError("ConnectionError", d)

(***************************************************************************)
(* GetData                                                                 *)
(***************************************************************************)
Whitespace == {" ", "\n", "\t"}

RECURSIVE lstrip(_)
lstrip(s) == IF s # <<>> /\ Head(s) \in Whitespace THEN lstrip(Tail(s)) ELSE s

RECURSIVE rstrip(_)
rstrip(s) ==
    IF s # <<>> /\ s[Len(s)] \in Whitespace THEN rstrip(SubSeq(s, 1, Len(s) - 1)) ELSE s

\* str.strip()
strip(s) == rstrip(lstrip(s))

\* str.startswith(prefix)
startswith(s, prefix) == Len(s) >= Len(prefix) /\ SubSeq(s, 1, Len(prefix)) = prefix

\* options[value] = text on a dict, kept as the sequence of its items in
\* insertion order: an existing key keeps its place and takes the new value.
DictPut(m, k, v) ==
    IF \E i \in 1..Len(m) : m[i].code = k
    THEN [i \in 1..Len(m) |-> IF m[i].code = k THEN [code |-> k, name |-> v] ELSE m[i]]
    ELSE Append(m, [code |-> k, name |-> v])

\* KeepOption without the test for header options.
KeepOption_NoHeaderTest(value) == value # <<>> /\ value # <<"0">>

\* line 140: the options parse_options keeps.
KeepOption(value) ==
    value # <<>> /\ value # <<"0">> /\ ~startswith(value, <<"=", "=", "=">>)

RECURSIVE parse_into(_, _)
parse_into(options, acc) ==
    IF options = <<>> THEN acc
    ELSE LET o == Head(options) IN
         parse_into(Tail(options),
                    IF KeepOption(o.value) THEN DictPut(acc, o.value, strip(o.text))
                    ELSE acc)

\* parse_options, on the option elements of the document.
parse_options(options) == parse_into(options, <<>>)

\* FetchFailed where a document without options counts as a failure too.
FetchFailed_EmptyMap(result) ==
    \/ result.kind \in {"None", "raise", "empty_text"}
    \/ result.kind = "text" /\ parse_options(result.html) = <<>>

\* get_provinces / get_cities / get_districts / get_villages raise when
\* make_request raised or returned None or an empty body.
FetchFailed(result) == result.kind \in {"None", "raise", "empty_text"}

NoNode == [code |-> <<>>, name |-> <<>>, total |-> 0, children |-> <<>>]
NewNode(item) == [code |-> item.code, name |-> item.name, total |-> 0, children |-> <<>>]

NewResults ==
    [total_provinces |-> 0, total_cities |-> 0, total_districts |-> 0,
     total_villages |-> 0, provinces |-> <<>>]

session_vars == <<headers, time_elapsed, since_issue, faults>>
loop_vars == <<provinces, cities, districts, pi, ci, di, province_data, city_data>>

\* main, line 283: GetData() builds the GetSession, whose __init__ calls
\* refresh_token and ignores what it returns.
Construct ==
    /\ pc = "construct"
    /\ \E page \in LandingPages, d \in Durations :
         LET r == refresh_token(headers, time_elapsed, page, d) IN
         /\ r.ok \/ faults < MaxFaults
         /\ faults' = IF r.ok THEN faults ELSE faults + 1
         /\ headers' = r.headers
         /\ time_elapsed' = r.time_elapsed
         /\ since_issue' = IF page \in Tokens THEN 0 ELSE Elapse(since_issue, d)
         /\ init_refresh' = IF page \in Tokens THEN "ok" ELSE "failed"
    /\ results' = NewResults
    /\ pc' = "scrape_all"
    /\ UNCHANGED <<rq, loop_vars, saved, exit_status, sent_endpoints, called, failed>>
    /\ UNCHANGED <<last_html, delays>>

\* lines 177 and 145: scrape_all calls get_provinces.
get_provinces ==
    /\ pc = "scrape_all"
    /\ make_request_enter("provinsi", <<>>)
    /\ pc' = "get_provinces"
    /\ UNCHANGED <<loop_vars, results, saved, exit_status, init_refresh, sent_endpoints,
                   failed>>
    /\ UNCHANGED <<last_html, delays>>

\* provinces_return where the failure is swallowed and scrape_all returns.
provinces_return_Swallowed ==
    /\ pc = "get_provinces"
    /\ rq.phase = "done"
    /\ rq' = IdleReq
    /\ failed' = IF FetchFailed(rq.result)
                 THEN failed \cup {<<rq.endpoint, rq.data, rq.result.kind>>}
                 ELSE failed
    /\ IF FetchFailed(rq.result)
       THEN /\ pc' = "save_results"
            /\ UNCHANGED <<provinces, pi, results, exit_status>>
       ELSE /\ provinces' = parse_options(rq.result.html)
            /\ results' = [results EXCEPT !.total_provinces = Len(provinces')]
            /\ pi' = 1
            /\ pc' = "provinces_loop"
            /\ UNCHANGED exit_status
    /\ UNCHANGED <<session_vars, cities, districts, ci, di, province_data, city_data,
                   saved, init_refresh, sent_endpoints, called>>
    /\ last_html' = IF FetchFailed(rq.result) THEN last_html ELSE rq.result.html
    /\ UNCHANGED delays

\* lines 146-148 and 178-179, or 254-256 and 294-297 when the fetch failed.
provinces_return ==
    /\ pc = "get_provinces"
    /\ rq.phase = "done"
    /\ rq' = IdleReq
    /\ failed' = IF FetchFailed(rq.result)
                 THEN failed \cup {<<rq.endpoint, rq.data, rq.result.kind>>}
                 ELSE failed
    /\ IF FetchFailed(rq.result)
       THEN /\ pc' = "exit"
            /\ exit_status' = <<1>>
            /\ UNCHANGED <<provinces, pi, results>>
       ELSE /\ provinces' = parse_options(rq.result.html)
            /\ results' = [results EXCEPT !.total_provinces = Len(provinces')]
            /\ pi' = 1
            /\ pc' = "provinces_loop"
            /\ UNCHANGED exit_status
    /\ UNCHANGED <<session_vars, cities, districts, ci, di, province_data, city_data,
                   saved, init_refresh, sent_endpoints, called>>
    /\ last_html' = IF FetchFailed(rq.result) THEN last_html ELSE rq.result.html
    /\ UNCHANGED delays

\* lines 184-195: the next province, and its get_cities call.
get_cities ==
    /\ pc = "provinces_loop"
    /\ pi <= Len(provinces)
    /\ province_data' = NewNode(provinces[pi])
    /\ make_request_enter("kabupaten", <<provinces[pi].code>>)
    /\ pc' = "get_cities"
    /\ UNCHANGED <<provinces, cities, districts, pi, ci, di, city_data, results, saved,
                   exit_status, init_refresh, sent_endpoints, failed>>
    /\ UNCHANGED <<last_html, delays>>

\* cities_return where the counter is assigned, not incremented.
cities_return_AssignsCount ==
    /\ pc = "get_cities"
    /\ rq.phase = "done"
    /\ rq' = IdleReq
    /\ failed' = IF FetchFailed(rq.result)
                 THEN failed \cup {<<rq.endpoint, rq.data, rq.result.kind>>}
                 ELSE failed
    /\ IF FetchFailed(rq.result)
       THEN /\ pi' = pi + 1
            /\ pc' = "provinces_loop"
            /\ UNCHANGED <<cities, ci, province_data, results>>
       ELSE /\ cities' = parse_options(rq.result.html)
            /\ province_data' = [province_data EXCEPT !.total = Len(cities')]
            /\ results' = [results EXCEPT !.total_cities = Len(cities')]
            /\ ci' = 1
            /\ pc' = "cities_loop"
            /\ UNCHANGED pi
    /\ UNCHANGED <<session_vars, provinces, districts, di, city_data, saved, exit_status,
                   init_refresh, sent_endpoints, called>>
    /\ last_html' = IF FetchFailed(rq.result) THEN last_html ELSE rq.result.html
    /\ UNCHANGED delays

\* lines 196-201.
cities_return ==
    /\ pc = "get_cities"
    /\ rq.phase = "done"
    /\ rq' = IdleReq
    /\ failed' = IF FetchFailed(rq.result)
                 THEN failed \cup {<<rq.endpoint, rq.data, rq.result.kind>>}
                 ELSE failed
    /\ IF FetchFailed(rq.result)
       THEN /\ pi' = pi + 1
            /\ pc' = "provinces_loop"
            /\ UNCHANGED <<cities, ci, province_data, results>>
       ELSE /\ cities' = parse_options(rq.result.html)
            /\ province_data' = [province_data EXCEPT !.total = Len(cities')]
            /\ results' = [results EXCEPT !.total_cities = @ + Len(cities')]
            /\ ci' = 1
            /\ pc' = "cities_loop"
            /\ UNCHANGED pi
    /\ UNCHANGED <<session_vars, provinces, districts, di, city_data, saved, exit_status,
                   init_refresh, sent_endpoints, called>>
    /\ last_html' = IF FetchFailed(rq.result) THEN last_html ELSE rq.result.html
    /\ UNCHANGED delays

\* get_districts called with the code of the first province, whatever the
\* province the loop is at.
get_districts_FirstProvince ==
    /\ pc = "cities_loop"
    /\ ci <= Len(cities)
    /\ city_data' = NewNode(cities[ci])
    /\ make_request_enter("kecamatan", <<provinces[1].code, cities[ci].code>>)
    /\ pc' = "get_districts"
    /\ UNCHANGED <<provinces, cities, districts, pi, ci, di, province_data, results,
                   saved, exit_status, init_refresh, sent_endpoints, failed>>
    /\ UNCHANGED <<last_html, delays>>

\* lines 203-212: the next city, and its get_districts call.
get_districts ==
    /\ pc = "cities_loop"
    /\ ci <= Len(cities)
    /\ city_data' = NewNode(cities[ci])
    /\ make_request_enter("kecamatan", <<provinces[pi].code, cities[ci].code>>)
    /\ pc' = "get_districts"
    /\ UNCHANGED <<provinces, cities, districts, pi, ci, di, province_data, results,
                   saved, exit_status, init_refresh, sent_endpoints, failed>>
    /\ UNCHANGED <<last_html, delays>>

\* districts_return without the try/except: the failure propagates to main.
districts_return_Unguarded ==
    /\ pc = "get_districts"
    /\ rq.phase = "done"
    /\ rq' = IdleReq
    /\ failed' = IF FetchFailed(rq.result)
                 THEN failed \cup {<<rq.endpoint, rq.data, rq.result.kind>>}
                 ELSE failed
    /\ IF FetchFailed(rq.result)
       THEN /\ pc' = "exit"
            /\ exit_status' = <<1>>
            /\ UNCHANGED <<districts, ci, di, city_data, results>>
       ELSE /\ districts' = parse_options(rq.result.html)
            /\ city_data' = [city_data EXCEPT !.total = Len(districts')]
            /\ results' = [results EXCEPT !.total_districts = @ + Len(districts')]
            /\ di' = 1
            /\ pc' = "districts_loop"
            /\ UNCHANGED <<ci, exit_status>>
    /\ UNCHANGED <<session_vars, provinces, cities, pi, province_data, saved,
                   init_refresh, sent_endpoints, called>>
    /\ last_html' = IF FetchFailed(rq.result) THEN last_html ELSE rq.result.html
    /\ UNCHANGED delays

\* districts_return where the city node is appended although its districts
\* fetch failed.
districts_return_AppendsSkipped ==
    /\ pc = "get_districts"
    /\ rq.phase = "done"
    /\ rq' = IdleReq
    /\ failed' = IF FetchFailed(rq.result)
                 THEN failed \cup {<<rq.endpoint, rq.data, rq.result.kind>>}
                 ELSE failed
    /\ IF FetchFailed(rq.result)
       THEN /\ ci' = ci + 1
            /\ pc' = "cities_loop"
            /\ province_data' = [province_data EXCEPT !.children = Append(@, city_data)]
            /\ UNCHANGED <<districts, di, city_data, results>>
       ELSE /\ districts' = parse_options(rq.result.html)
            /\ city_data' = [city_data EXCEPT !.total = Len(districts')]
            /\ results' = [results EXCEPT !.total_districts = @ + Len(districts')]
            /\ di' = 1
            /\ pc' = "districts_loop"
            /\ UNCHANGED <<ci, province_data>>
    /\ UNCHANGED <<session_vars, provinces, cities, pi, saved,
                   exit_status, init_refresh, sent_endpoints, called>>
    /\ last_html' = IF FetchFailed(rq.result) THEN last_html ELSE rq.result.html
    /\ UNCHANGED delays

\* districts_return where skipping a city takes it off the province's count.
districts_return_CountsDown ==
    /\ pc = "get_districts"
    /\ rq.phase = "done"
    /\ rq' = IdleReq
    /\ failed' = IF FetchFailed(rq.result)
                 THEN failed \cup {<<rq.endpoint, rq.data, rq.result.kind>>}
                 ELSE failed
    /\ IF FetchFailed(rq.result)
       THEN /\ ci' = ci + 1
            /\ pc' = "cities_loop"
            /\ province_data' = [province_data EXCEPT !.total = @ - 1]
            /\ UNCHANGED <<districts, di, city_data, results>>
       ELSE /\ districts' = parse_options(rq.result.html)
            /\ city_data' = [city_data EXCEPT !.total = Len(districts')]
            /\ results' = [results EXCEPT !.total_districts = @ + Len(districts')]
            /\ di' = 1
            /\ pc' = "districts_loop"
            /\ UNCHANGED <<ci, province_data>>
    /\ UNCHANGED <<session_vars, provinces, cities, pi, saved,
                   exit_status, init_refresh, sent_endpoints, called>>
    /\ last_html' = IF FetchFailed(rq.result) THEN last_html ELSE rq.result.html
    /\ UNCHANGED delays

\* lines 213-218.
districts_return ==
    /\ pc = "get_districts"
    /\ rq.phase = "done"
    /\ rq' = IdleReq
    /\ failed' = IF FetchFailed(rq.result)
                 THEN failed \cup {<<rq.endpoint, rq.data, rq.result.kind>>}
                 ELSE failed
    /\ IF FetchFailed(rq.result)
       THEN /\ ci' = ci + 1
            /\ pc' = "cities_loop"
            /\ UNCHANGED <<districts, di, city_data, results>>
       ELSE /\ districts' = parse_options(rq.result.html)
            /\ city_data' = [city_data EXCEPT !.total = Len(districts')]
            /\ results' = [results EXCEPT !.total_districts = @ + Len(districts')]
            /\ di' = 1
            /\ pc' = "districts_loop"
            /\ UNCHANGED ci
    /\ UNCHANGED <<session_vars, provinces, cities, pi, province_data, saved,
                   exit_status, init_refresh, sent_endpoints, called>>
    /\ last_html' = IF FetchFailed(rq.result) THEN last_html ELSE rq.result.html
    /\ UNCHANGED delays

\* lines 220-229: the next district, and its get_villages call.
get_villages ==
    /\ pc = "districts_loop"
    /\ di <= Len(districts)
    /\ make_request_enter("desa", <<provinces[pi].code, cities[ci].code, districts[di].code>>)
    /\ pc' = "get_villages"
    /\ UNCHANGED <<loop_vars, results, saved, exit_status, init_refresh, sent_endpoints,
                   failed>>
    /\ UNCHANGED <<last_html, delays>>

\* lines 230-243: the district node is built and appended, then the delay.
villages_return ==
    /\ pc = "get_villages"
    /\ rq.phase = "done"
    /\ rq' = IdleReq
    /\ failed' = IF FetchFailed(rq.result)
                 THEN failed \cup {<<rq.endpoint, rq.data, rq.result.kind>>}
                 ELSE failed
    /\ di' = di + 1
    /\ pc' = "districts_loop"
    /\ IF FetchFailed(rq.result)
       THEN UNCHANGED <<city_data, results, time_elapsed, since_issue>>
       ELSE LET villages == parse_options(rq.result.html)
                district_data == [NewNode(districts[di]) EXCEPT
                                    !.total = Len(villages), !.children = villages]
            IN /\ results' = [results EXCEPT !.total_villages = @ + Len(villages)]
               /\ city_data' = [city_data EXCEPT !.children = Append(@, district_data)]
               /\ time_elapsed' = Elapse(time_elapsed, rate_limit)
               /\ since_issue' = Elapse(since_issue, rate_limit)
    /\ UNCHANGED <<headers, faults, provinces, cities, districts, pi, ci, province_data,
                   saved, exit_status, init_refresh, sent_endpoints, called>>
    /\ last_html' = IF FetchFailed(rq.result) THEN last_html ELSE rq.result.html
    /\ delays' = IF FetchFailed(rq.result) THEN delays ELSE delays + 1

\* lines 245-246: the districts loop is over, the city node is appended.
city_done ==
    /\ pc = "districts_loop"
    /\ di > Len(districts)
    /\ province_data' = [province_data EXCEPT !.children = Append(@, city_data)]
    /\ time_elapsed' = Elapse(time_elapsed, rate_limit)
    /\ since_issue' = Elapse(since_issue, rate_limit)
    /\ ci' = ci + 1
    /\ pc' = "cities_loop"
    /\ UNCHANGED <<headers, faults, rq, provinces, cities, districts, pi, di, city_data,
                   results, saved, exit_status, init_refresh, sent_endpoints, called,
                   failed>>
    /\ delays' = delays + 1
    /\ UNCHANGED last_html

\* lines 248-250: the cities loop is over, the province node is appended.
province_done ==
    /\ pc = "cities_loop"
    /\ ci > Len(cities)
    /\ results' = [results EXCEPT !.provinces = Append(@, province_data)]
    /\ time_elapsed' = Elapse(time_elapsed, rate_limit)
    /\ since_issue' = Elapse(since_issue, rate_limit)
    /\ pi' = pi + 1
    /\ pc' = "provinces_loop"
    /\ UNCHANGED <<headers, faults, rq, provinces, cities, districts, ci, di,
                   province_data, city_data, saved, exit_status, init_refresh,
                   sent_endpoints, called, failed>>
    /\ delays' = delays + 1
    /\ UNCHANGED last_html

\* line 252: the provinces loop is over, scrape_all returns self.results.
scrape_all_return ==
    /\ pc = "provinces_loop"
    /\ pi > Len(provinces)
    /\ pc' = "save_results"
    /\ UNCHANGED <<session_vars, rq, loop_vars, results, saved, exit_status,
                   init_refresh, sent_endpoints, called, failed>>
    /\ UNCHANGED <<last_html, delays>>

\* lines 288-292 and 258-279: the document is written, or open/json.dump
\* raises and main exits with status 1.
save_results(ok) ==
    /\ pc = "save_results"
    /\ ok \/ faults < MaxFaults
    /\ faults' = IF ok THEN faults ELSE faults + 1
    /\ saved' = ok
    /\ exit_status' = IF ok THEN <<0>> ELSE <<1>>
    /\ pc' = "exit"
    /\ UNCHANGED <<headers, time_elapsed, since_issue, rq, loop_vars, results,
                   init_refresh, sent_endpoints, called, failed>>
    /\ UNCHANGED <<last_html, delays>>

Init ==
    /\ pc = "construct"
    /\ headers = NoHeader
    /\ time_elapsed = Never
    /\ since_issue = Never
    /\ rq = IdleReq
    /\ faults = 0
    /\ provinces = <<>>
    /\ cities = <<>>
    /\ districts = <<>>
    /\ pi = 0
    /\ ci = 0
    /\ di = 0
    /\ province_data = NoNode
    /\ city_data = NoNode
    /\ results = NewResults
    /\ saved = FALSE
    /\ exit_status = <<>>
    /\ init_refresh = "pending"
    /\ sent_endpoints = {}
    /\ called = {}
    /\ failed = {}
    /\ last_html = <<>>
    /\ delays = 0

\* The option elements a document may hold: a missing or empty value, the
\* placeholder "0", header values, ordinary codes; texts with and without
\* surrounding whitespace.
OptionValues ==
    {<<>>, <<"0">>, <<"0", "1">>, <<"1">>, <<"=", "=", "=">>, <<"=", "=", "=", "1">>,
     <<"=", "=", "1">>}
OptionTexts == {<<>>, <<" ", "a", "\n">>, <<"b">>}
Options == {Opt(v, t) : v \in OptionValues, t \in OptionTexts}
Documents == UNION {[1..n -> Options] : n \in 0..MaxOptions}

\* The provinsi request of get_provinces has just been answered with status
\* 200 and some document.
InitParse ==
    /\ pc = "get_provinces"
    /\ headers \in Tokens
    /\ time_elapsed = 0
    /\ since_issue = 0
    /\ \E doc \in Documents :
          rq = [phase |-> "done", endpoint |-> "provinsi", data |-> <<>>, attempt |-> 0,
                sent |-> 1, pre |-> "fresh", result |-> ReturnText(doc),
                hist |-> <<Entry("200", "none", <<>>)>>]
    /\ faults = 0
    /\ provinces = <<>>
    /\ cities = <<>>
    /\ districts = <<>>
    /\ pi = 0
    /\ ci = 0
    /\ di = 0
    /\ province_data = NoNode
    /\ city_data = NoNode
    /\ results = NewResults
    /\ saved = FALSE
    /\ exit_status = <<>>
    /\ init_refresh = "ok"
    /\ sent_endpoints = {"provinsi"}
    /\ called = {<<"provinsi", <<>>>>}
    /\ failed = {}
    /\ last_html = <<>>
    /\ delays = 0

\* get_provinces parses the document.
NextParse == provinces_return

SpecParse == InitParse /\ [][NextParse]_vars

Next ==
    \/ Construct
    \/ get_provinces
    \/ provinces_return
    \/ get_cities
    \/ cities_return
    \/ get_districts
    \/ districts_return
    \/ get_villages
    \/ villages_return
    \/ city_done
    \/ province_done
    \/ scrape_all_return
    \/ \E ok \in BOOLEAN : save_results(ok)
    \/ Send
    \/ \E d \in Durations, empty \in BOOLEAN : Receive200(d, empty)
    \/ \E d \in Durations, page \in LandingPages, d2 \in Durations : Receive419(d, page, d2)
    \/ \E d \in Durations : Receive429(d)
    \/ \E d \in Durations : ReceiveOther(d)
    \/ \E d \in Durations : ReceiveTimeout(d)
    \/ \E d \in Durations : ReceiveException(d)

Spec == Init /\ [][Next]_vars

(***************************************************************************)
(* Properties                                                              *)
(***************************************************************************)
InCall == rq.phase \in {"send", "wait", "done"}
InLoop == rq.phase \in {"send", "wait"}
Statuses(h) == {h[i].status : i \in 1..Len(h)}
Refreshes419(h) == Cardinality({i \in 1..Len(h) : h[i].refresh # "none"})
HttpFailures == {"419", "429", "500"}
TransportErrors == {"Timeout", "ConnectionError"}
LastStatus(h) == h[Len(h)].status

\* No token was ever stored, or the stored one was issued token_lifetime
\* seconds ago or more.
TokenExpired == since_issue = Never \/ since_issue >= token_lifetime

\* C1: every request make_request sends (any attempt of the retry loop) is
\* sent while a token has been issued less than token_lifetime seconds ago.
C1_EveryRequestCarriesFreshToken == rq.phase = "wait" => ~TokenExpired

C4_429SleepsAndConsumesAttempt ==
    InCall =>
        /\ \A i \in 1..Len(rq.hist) :
              rq.hist[i].status = "429" => rq.hist[i].slept = <<retry_after>>
        /\ (InLoop /\ "429" \in Statuses(rq.hist)) => rq.attempt = Len(rq.hist)
        /\ (rq.phase = "done" /\ rq.pre # "refresh_failed"
              /\ Statuses(rq.hist) \subseteq HttpFailures)
             => rq.sent = retries /\ rq.result = ReturnNone

C4_Witness ==
    /\ rq.phase = "done"
    /\ rq.sent = retries
    /\ Statuses(rq.hist) = {"429"}
    /\ rq.result = ReturnNone

\* C5: make_request ends after at most `retries` attempts; it returns the
\* body at the first 200, returns None when the attempts are used up by
\* non-200 statuses, and raises exactly when the last attempt ends in a
\* transport error; an earlier transport error is retried.
C5_BoundedRetryOutcome ==
    InCall =>
        /\ rq.sent <= retries
        /\ InLoop => rq.attempt < retries
        /\ \A i \in 1..Len(rq.hist) : rq.hist[i].status = "200" => i = Len(rq.hist)
        /\ rq.phase = "done" =>
              /\ Len(rq.hist) = rq.sent
              /\ rq.result.kind \in {"text", "empty_text"}
                    <=> (rq.hist # <<>> /\ LastStatus(rq.hist) = "200")
              /\ rq.result = Raised
                    <=> (rq.sent = retries /\ LastStatus(rq.hist) \in TransportErrors)
              /\ rq.result = ReturnNone
                    <=> \/ rq.pre = "refresh_failed"
                        \/ rq.sent = retries /\ LastStatus(rq.hist) \in HttpFailures

C5_Witness ==
    /\ rq.phase = "done"
    /\ rq.result = Raised
    /\ rq.hist[1].status \in TransportErrors

\* C6, as claimed: a call made with an expired token whose refresh fails is
\* aborted with an exception, and sends no request.
C6_FailedRefreshRaises ==
    rq.pre = "refresh_failed" => rq.result = Raised /\ rq.sent = 0

\* C6, amended: a call made with an expired token whose refresh fails returns
\* None without raising, and sends no request.
C6_FailedRefreshReturnsNone ==
    rq.pre = "refresh_failed" =>
        /\ rq.phase = "done"
        /\ rq.result = ReturnNone
        /\ rq.sent = 0
        /\ rq.hist = <<>>

C6_Witness == rq.pre = "refresh_failed" /\ pc = "get_cities" /\ init_refresh = "ok"

\* C7, as claimed: the expiry predicate is true right after the session
\* manager is constructed.
C7_ExpiredAfterConstruction == pc = "scrape_all" => check_token_expiry(time_elapsed)

\* C7, amended: right after construction the expiry predicate is true exactly
\* when the refresh made by the constructor failed; it is false right after a
\* successful refresh, and true again exactly when token_lifetime seconds or
\* more have passed since the last successful refresh.
C7_ExpiryPredicate ==
    /\ pc = "scrape_all" => (check_token_expiry(time_elapsed) <=> init_refresh = "failed")
    /\ (rq.phase = "send" /\ rq.pre = "refreshed" /\ rq.hist = <<>>)
          => ~check_token_expiry(time_elapsed)
    /\ check_token_expiry(time_elapsed) <=> TokenExpired

C7_Witness ==
    /\ init_refresh = "ok"
    /\ since_issue = token_lifetime
    /\ check_token_expiry(time_elapsed)

\* C8: when the token fetch made at startup fails, no request is ever sent to
\* a provinsi / kabupaten / kecamatan / desa endpoint.
C8_StartupFailureIsFatal == init_refresh = "failed" => sent_endpoints = {}

ProvincesFailed == \E f \in failed : f[1] = "provinsi"

\* C9: a failed province fetch aborts the run: main exits with status 1,
\* nothing is saved, and no kabupaten / kecamatan / desa request is sent.
C9_ProvinceFailureAborts ==
    ProvincesFailed =>
        /\ pc = "exit"
        /\ exit_status = <<1>>
        /\ ~saved
        /\ sent_endpoints \subseteq {"provinsi"}
        /\ called = {<<"provinsi", <<>>>>}
        /\ results.provinces = <<>>

C9_Witness == \E f \in failed : f[1] = "provinsi" /\ f[3] = "raise"

Codes(endpoint, data) ==
    LET m == parse_options(Server(endpoint, data)) IN {m[i].code : i \in 1..Len(m)}

FetchSucceeded(endpoint, data) ==
    /\ <<endpoint, data>> \in called
    /\ ~\E f \in failed : f[1] = endpoint /\ f[2] = data

\* Every node below a successfully fetched node was fetched.
FullCoverage ==
    \A p \in Codes("provinsi", <<>>) :
        /\ <<"kabupaten", <<p>>>> \in called
        /\ FetchSucceeded("kabupaten", <<p>>) =>
             \A c \in Codes("kabupaten", <<p>>) :
                 /\ <<"kecamatan", <<p, c>>>> \in called
                 /\ FetchSucceeded("kecamatan", <<p, c>>) =>
                      \A d \in Codes("kecamatan", <<p, c>>) :
                          <<"desa", <<p, c, d>>>> \in called

\* Nothing below a node whose fetch failed was fetched.
SubtreeSkipped ==
    \A f \in failed : \A c \in called :
        Len(c[2]) > Len(f[2]) => SubSeq(c[2], 1, Len(f[2])) # f[2]

\* C10: a failed cities, districts or villages fetch never aborts the run:
\* only the subtree of that node is skipped, every other node is still
\* fetched, and the run can always go on until scrape_all has returned.
C10_SubtreeFailureIsSkipped ==
    /\ SubtreeSkipped
    /\ pc = "save_results" => FullCoverage
    /\ (pc = "exit" /\ ~ProvincesFailed) => FullCoverage
    /\ (failed # {} /\ ~ProvincesFailed) => exit_status # <<1>> \/ FullCoverage
    /\ pc # "exit" => ENABLED Next

C10_Witness ==
    /\ pc = "save_results"
    /\ \E f \in failed : f[1] = "kabupaten"
    /\ \E f \in failed : f[1] = "kecamatan" /\ f[3] = "raise"

\* What the server holds for a node, as parse_options reads it.
ServerMap(endpoint, data) == parse_options(Server(endpoint, data))

HasFailed(endpoint, data) == \E f \in failed : f[1] = endpoint /\ f[2] = data

\* The district node of item d of city c of province p.
DistrictNode(p, c, d) ==
    LET villages == ServerMap("desa", <<p, c, d.code>>) IN
    [code |-> d.code, name |-> d.name, total |-> Len(villages), children |-> villages]

\* The district nodes of the items ds whose villages fetch did not fail.
DistrictNodes(p, c, ds) ==
    LET kept == SelectSeq(ds, LAMBDA d : ~HasFailed("desa", <<p, c, d.code>>))
    IN [i \in 1..Len(kept) |-> DistrictNode(p, c, kept[i])]

\* The city node of item c of province p: it depends on the server and on
\* the failures below c only.
CityNode(p, c) ==
    LET ds == ServerMap("kecamatan", <<p, c.code>>) IN
    [code |-> c.code, name |-> c.name, total |-> Len(ds),
     children |-> DistrictNodes(p, c.code, ds)]

\* The city nodes of the items cs whose districts fetch did not fail.
CityNodes(p, cs) ==
    LET kept == SelectSeq(cs, LAMBDA c : ~HasFailed("kecamatan", <<p, c.code>>))
    IN [i \in 1..Len(kept) |-> CityNode(p, kept[i])]

ProvinceNode(p) ==
    LET cs == ServerMap("kabupaten", <<p.code>>) IN
    [code |-> p.code, name |-> p.name, total |-> Len(cs), children |-> CityNodes(p.code, cs)]

ProvinceItem(code) ==
    LET m == ServerMap("provinsi", <<>>)
    IN m[CHOOSE i \in 1..Len(m) : m[i].code = code]

InProvince == pc \in {"cities_loop", "get_districts", "districts_loop", "get_villages"}

\* C11: when the districts fetch of a city fails, the province keeps its
\* code, name and child count, and every sibling city node is the node the
\* server's data and the failures below that sibling alone determine (the
\* same as in a run where the fetch did not fail); only the failed city is
\* missing from the children.
C11_SkippedCityLeavesSiblings ==
    /\ \A i \in 1..Len(results.provinces) :
          /\ results.provinces[i].code \in Codes("provinsi", <<>>)
          /\ results.provinces[i] = ProvinceNode(ProvinceItem(results.provinces[i].code))
    /\ InProvince =>
          /\ province_data.code = provinces[pi].code
          /\ province_data.name = provinces[pi].name
          /\ province_data.total = Len(ServerMap("kabupaten", <<province_data.code>>))
          /\ province_data.children = CityNodes(province_data.code, SubSeq(cities, 1, ci - 1))

C11_Witness ==
    /\ HasFailed("kecamatan", <<P11, K1101>>)
    /\ Len(results.provinces) >= 1
    /\ results.provinces[1].code = P11
    /\ results.provinces[1].total = 2
    /\ Len(results.provinces[1].children) = 1
    /\ results.provinces[1].children[1].code = K1102

\* The fetches of an endpoint that have returned a map.
SuccessfulFetches(endpoint) ==
    {c \in called : /\ c[1] = endpoint
                    /\ ~HasFailed(c[1], c[2])
                    /\ ~(rq.phase # "idle" /\ rq.endpoint = c[1] /\ rq.data = c[2])}

RECURSIVE SumOfSizes(_)
SumOfSizes(fetches) ==
    IF fetches = {} THEN 0
    ELSE LET c == CHOOSE x \in fetches : TRUE
         IN Len(ServerMap(c[1], c[2])) + SumOfSizes(fetches \ {c})

CountersMatchFetches ==
    /\ results.total_provinces = SumOfSizes(SuccessfulFetches("provinsi"))
    /\ results.total_cities = SumOfSizes(SuccessfulFetches("kabupaten"))
    /\ results.total_districts = SumOfSizes(SuccessfulFetches("kecamatan"))
    /\ results.total_villages = SumOfSizes(SuccessfulFetches("desa"))

CountersNeverDecrease ==
    /\ results'.total_provinces >= results.total_provinces
    /\ results'.total_cities >= results.total_cities
    /\ results'.total_districts >= results.total_districts
    /\ results'.total_villages >= results.total_villages

\* C12: at every moment each per-level counter equals the sum of the sizes of
\* the maps returned so far by the successful fetches of that level (a failed
\* fetch adds nothing), and no step decreases a counter.
C12_CountersSumSuccessfulFetches ==
    [](CountersMatchFetches) /\ [][CountersNeverDecrease]_vars

C12_Witness ==
    /\ pc = "save_results"
    /\ failed # {}
    /\ results.total_cities = 3
    /\ results.total_villages > 0

RECURSIVE SumLens(_)
\* The total number of children of the nodes of a sequence.
SumLens(nodes) ==
    IF nodes = <<>> THEN 0 ELSE Len(Head(nodes).children) + SumLens(Tail(nodes))

RECURSIVE Flatten(_)
\* The children of the nodes of a sequence, in order.
Flatten(nodes) ==
    IF nodes = <<>> THEN <<>> ELSE Head(nodes).children \o Flatten(Tail(nodes))

TreeCities == Flatten(results.provinces)
TreeDistricts == Flatten(TreeCities)

\* C13: when scrape_all has returned, each aggregate counter equals the
\* number of nodes of its level present in the tree, and the child count of
\* every node equals the length of its children collection.
C13_CountsMatchTree ==
    pc = "save_results" =>
        /\ results.total_provinces = Len(results.provinces)
        /\ results.total_cities = Len(TreeCities)
        /\ results.total_districts = Len(TreeDistricts)
        /\ results.total_villages = SumLens(TreeDistricts)
        /\ \A i \in 1..Len(results.provinces) :
              results.provinces[i].total = Len(results.provinces[i].children)
        /\ \A i \in 1..Len(TreeCities) : TreeCities[i].total = Len(TreeCities[i].children)
        /\ \A i \in 1..Len(TreeDistricts) :
              TreeDistricts[i].total = Len(TreeDistricts[i].children)

EmptyCityNode(c) == [code |-> c.code, name |-> c.name, total |-> 0, children |-> <<>>]

\* The cities of province p for which the server has no district.
CitiesWithoutDistricts(p) ==
    LET cs == ServerMap("kabupaten", <<p>>)
    IN {cs[i] : i \in {j \in 1..Len(cs) : ServerMap("kecamatan", <<p, cs[j].code>>) = <<>>}}

\* The districts fetch returned a document from which parse_options keeps
\* nothing.
EmptyDistrictsReturned ==
    /\ pc = "get_districts"
    /\ rq.phase = "done"
    /\ rq.result.kind = "text"
    /\ parse_options(rq.result.html) = <<>>

IsHeaderOrPlaceholder(value) ==
    \/ value = <<"0">>
    \/ Len(value) >= 3 /\ value[1] = "=" /\ value[2] = "=" /\ value[3] = "="

\* name is text without its leading and trailing whitespace.
IsStripped(name, text) ==
    /\ name = <<>> \/ (name[1] \notin Whitespace /\ name[Len(name)] \notin Whitespace)
    /\ \E a \in 0..Len(text) : \E b \in 0..(Len(text) - a) :
          /\ SubSeq(text, a + 1, Len(text) - b) = name
          /\ \A k \in (1..a) \cup ((Len(text) - b + 1)..Len(text)) : text[k] \in Whitespace

NoExcludedKey(out) == \A i \in 1..Len(out) : ~IsHeaderOrPlaceholder(out[i].code)

UniqueKeys(out) == \A i, k \in 1..Len(out) : i # k => out[i].code # out[k].code

Parsed == pc = "provinces_loop"

\* C15, as claimed: the map has no key "0" and no key beginning with "===",
\* its keys are unique, and every other option with a non-empty value is in
\* it, mapped to its own stripped label.
C15_EveryOptionMappedToItsLabel ==
    Parsed =>
        /\ NoExcludedKey(provinces)
        /\ UniqueKeys(provinces)
        /\ \A j \in 1..Len(last_html) :
              (last_html[j].value # <<>> /\ ~IsHeaderOrPlaceholder(last_html[j].value))
                => \E i \in 1..Len(provinces) :
                      /\ provinces[i].code = last_html[j].value
                      /\ IsStripped(provinces[i].name, last_html[j].text)

\* C15, amended: the map has no key "0" and no key beginning with "===",
\* its keys are unique, and the value of every other option with a non-empty
\* value is a key of it, mapped to the stripped label of the last option
\* that carries this value.
C15_EveryValueMappedToLastLabel ==
    Parsed =>
        /\ NoExcludedKey(provinces)
        /\ UniqueKeys(provinces)
        /\ \A j \in 1..Len(last_html) :
              (last_html[j].value # <<>> /\ ~IsHeaderOrPlaceholder(last_html[j].value))
                => \E i \in 1..Len(provinces) :
                      /\ provinces[i].code = last_html[j].value
                      /\ \E k \in j..Len(last_html) :
                            /\ last_html[k].value = last_html[j].value
                            /\ \A l \in (k + 1)..Len(last_html) :
                                  last_html[l].value # last_html[j].value
                            /\ IsStripped(provinces[i].name, last_html[k].text)

C15_Witness ==
    /\ Parsed
    /\ Len(last_html) = 3
    /\ last_html[1].value = <<"=", "=", "=", "1">>
    /\ last_html[2].value = <<"1">>
    /\ last_html[3].value = <<"1">>
    /\ last_html[2].text # last_html[3].text
    /\ Len(provinces) = 1

\* The attempt (0-based) that the i-th entry of a call's history records.
AttemptOf(i) == i - 1
IsFinal(i) == AttemptOf(i) = retries - 1

\* C16, as claimed: a failed attempt k that is not the final one and ended in
\* a non-200 status other than 429 or in a transport error is followed by a
\* sleep of exactly 2^k seconds; a 429 sleeps only the cooldown; no sleep
\* follows the final attempt.
C16_BackoffIsTwoToTheAttempt ==
    InCall =>
        \A i \in 1..Len(rq.hist) :
            LET e == rq.hist[i] IN
            /\ (~IsFinal(i) /\ e.status \in {"419", "500"} \cup TransportErrors)
                  => e.slept = <<Pow2(AttemptOf(i))>>
            /\ e.status = "429" => e.slept = <<retry_after>>
            /\ IsFinal(i) => e.slept = <<>>

\* C16, amended: a failed attempt k that is not the final one is followed by
\* a sleep of exactly 2^k seconds when it ended in a connection error or in a
\* non-200 status other than 429 (a 419 only when its token refresh
\* succeeded), and by the fixed timeout_sleep seconds when it ended in a
\* timeout; a 419 whose refresh failed is followed by no sleep; a 429 sleeps
\* only the cooldown, on the final attempt too; no other sleep follows the
\* final attempt.
C16_SleepAfterEachAttempt ==
    InCall =>
        \A i \in 1..Len(rq.hist) :
            LET e == rq.hist[i] IN
            /\ (~IsFinal(i) /\ (\/ e.status \in {"500", "ConnectionError"}
                                \/ e.status = "419" /\ e.refresh = "ok"))
                  => e.slept = <<Pow2(AttemptOf(i))>>
            /\ (~IsFinal(i) /\ e.status = "Timeout") => e.slept = <<timeout_sleep>>
            /\ (e.status = "419" /\ e.refresh = "failed") => e.slept = <<>>
            /\ e.status = "429" => e.slept = <<retry_after>>
            /\ (IsFinal(i) /\ e.status # "429") => e.slept = <<>>
            /\ e.status = "200" => e.slept = <<>>

C16_Witness ==
    /\ rq.phase = "done"
    /\ Len(rq.hist) = retries
    /\ rq.hist[1].status = "ConnectionError"
    /\ rq.hist[2] = Entry("419", "ok", <<2>>)
    /\ rq.hist[3].status = "500"

\* The position of an item among the items its parent's fetch returns; 0 when
\* it is not one of them.
Rank(endpoint, data, code) ==
    LET m == ServerMap(endpoint, data)
        at == {i \in 1..Len(m) : m[i].code = code}
    IN IF at = {} THEN 0 ELSE CHOOSE i \in at : TRUE

ProvinceRank(call) == Rank("provinsi", <<>>, call[2][1])
CityRank(call) == Rank("kabupaten", <<call[2][1]>>, call[2][2])

\* The request of the call in progress goes out.
SendStep == rq.phase = "send" /\ rq'.phase = "wait"

\* No cities request was made for a province after the one the request being
\* sent belongs to, and no districts request for a city after its city.
SentInDepthFirstOrder ==
    LET r == <<rq.endpoint, rq.data>> IN
    /\ r[1] # "provinsi" =>
          \A c \in called : c[1] = "kabupaten" => ProvinceRank(c) <= ProvinceRank(r)
    /\ r[1] \in {"kecamatan", "desa"} =>
          \A c \in called : c[1] = "kecamatan" =>
              \/ ProvinceRank(c) < ProvinceRank(r)
              \/ ProvinceRank(c) = ProvinceRank(r) /\ CityRank(c) <= CityRank(r)

\* The call in progress is the one of the node the loops are at.
CallOfCurrentNode ==
    /\ pc = "get_provinces" => rq.endpoint = "provinsi" /\ rq.data = <<>>
    /\ pc = "get_cities" => rq.endpoint = "kabupaten" /\ rq.data = <<provinces[pi].code>>
    /\ pc = "get_districts" =>
          rq.endpoint = "kecamatan" /\ rq.data = <<provinces[pi].code, cities[ci].code>>
    /\ pc = "get_villages" =>
          /\ rq.endpoint = "desa"
          /\ rq.data = <<provinces[pi].code, cities[ci].code, districts[di].code>>
    /\ pc \in {"get_provinces", "get_cities", "get_districts", "get_villages"}

\* C17: one request at a time, depth first: a request is in flight only for
\* the call of the node the loops are at, a call begins only when no other
\* is in progress, and when a request is sent no cities request of a later
\* province and no districts request of a later city has been made, so the
\* requests of one subtree all precede the request that opens the next.
C17_SequentialDepthFirst ==
    /\ [](InCall => CallOfCurrentNode)
    /\ [][called' # called => rq.phase = "idle"]_vars
    /\ [][SendStep => SentInDepthFirstOrder]_vars

C17_Witness ==
    /\ rq.phase = "wait"
    /\ rq.endpoint = "desa"
    /\ rq.data = <<P12, K1201, D03>>
    /\ <<"desa", <<P11, K1101, D02>>>> \in called
    /\ <<"kecamatan", <<P11, K1102>>>> \in called

\* The nodes the crawl finishes in a step: the province, city or district a
\* loop leaves (appended or skipped), and the villages of a district.
ProvinceFinished == pc \in {"get_cities", "cities_loop"} /\ pi' = pi + 1
CityFinished == pc \in {"get_districts", "districts_loop"} /\ ci' = ci + 1
DistrictFinished == pc = "get_villages" /\ di' = di + 1
VillagesFinished == results'.total_villages - results.total_villages

NodesFinished ==
    (IF ProvinceFinished THEN 1 ELSE 0) + (IF CityFinished THEN 1 ELSE 0)
        + (IF DistrictFinished THEN 1 ELSE 0) + VillagesFinished

\* C18: a delay of rate_limit seconds follows every node the crawl finishes,
\* at each of the four levels, whether the node was appended or skipped.
C18_DelayAfterEveryNode == [][delays' - delays = NodesFinished]_vars

RECURSIVE IsSubseq(_, _)
\* a is b with some elements left out, the others in the same order.
IsSubseq(a, b) ==
    IF a = <<>> THEN TRUE
    ELSE IF b = <<>> THEN FALSE
    ELSE IF Head(a) = Head(b) THEN IsSubseq(Tail(a), Tail(b))
    ELSE IsSubseq(a, Tail(b))

Items(nodes) == [i \in 1..Len(nodes) |-> [code |-> nodes[i].code, name |-> nodes[i].name]]

\* The fetch of the children of the node with this path returned.
Fetched(endpoint, data) == <<endpoint, data>> \in called /\ ~HasFailed(endpoint, data)

\* A district node under city c of province p: its villages fetch succeeded
\* and its children are the villages returned.
DistrictSound(p, c, n) ==
    /\ Fetched("desa", <<p, c, n.code>>)
    /\ IsSubseq(n.children, ServerMap("desa", <<p, c, n.code>>))

\* The children of a city node: each a sound district node, in the order
\* the districts were returned.
CityChildrenSound(p, n) ==
    /\ IsSubseq(Items(n.children), ServerMap("kecamatan", <<p, n.code>>))
    /\ \A i \in 1..Len(n.children) : DistrictSound(p, n.code, n.children[i])

CitySound(p, n) == Fetched("kecamatan", <<p, n.code>>) /\ CityChildrenSound(p, n)

ProvinceChildrenSound(n) ==
    /\ IsSubseq(Items(n.children), ServerMap("kabupaten", <<n.code>>))
    /\ \A i \in 1..Len(n.children) : CitySound(n.code, n.children[i])

ProvinceSound(n) == Fetched("kabupaten", <<n.code>>) /\ ProvinceChildrenSound(n)

\* In every state: no node of the tree, or of the province and city being
\* built, has a children fetch that failed or was not made, and children are
\* a subsequence of the items returned.
TreeSound ==
    /\ IsSubseq(Items(results.provinces), ServerMap("provinsi", <<>>))
    /\ \A i \in 1..Len(results.provinces) : ProvinceSound(results.provinces[i])
    /\ pc \in {"cities_loop", "get_districts", "districts_loop", "get_villages"}
          => ProvinceSound(province_data)
    /\ pc \in {"districts_loop", "get_villages"} => CitySound(provinces[pi].code, city_data)

\* Every item the fetch returned was skipped because its own fetch failed.
AllSkipped(endpoint, data, below) ==
    LET m == ServerMap(endpoint, data) IN
    \A i \in 1..Len(m) : HasFailed(below, Append(data, m[i].code))

\* What an empty children collection of a node of the final document means:
\* the server returned no item, or (when allowed) every item was skipped.
EmptyExplained(skipsAllowed) ==
    \A i \in 1..Len(results.provinces) :
        LET p == results.provinces[i] IN
        /\ p.children = <<>> =>
              \/ ServerMap("kabupaten", <<p.code>>) = <<>>
              \/ skipsAllowed /\ AllSkipped("kabupaten", <<p.code>>, "kecamatan")
        /\ \A j \in 1..Len(p.children) :
              LET c == p.children[j] IN
              /\ c.children = <<>> =>
                    \/ ServerMap("kecamatan", <<p.code, c.code>>) = <<>>
                    \/ skipsAllowed /\ AllSkipped("kecamatan", <<p.code, c.code>>, "desa")
              /\ \A k \in 1..Len(c.children) :
                    LET d == c.children[k] IN
                    d.children = <<>> => ServerMap("desa", <<p.code, c.code, d.code>>) = <<>>

\* C19, as claimed: the tree never holds a node whose children fetch failed,
\* children are a subsequence of the items returned, in their order, and an
\* empty children collection in the final document means the server
\* returned no item.
C19_EmptyMeansNoItems ==
    /\ TreeSound
    /\ pc = "save_results" => EmptyExplained(FALSE)

\* C19, amended: the tree never holds a node whose children fetch failed,
\* children are a subsequence of the items returned, in their order, and an
\* empty children collection in the final document means that the server
\* returned no item or that every item it returned was skipped because the
\* item's own fetch failed.
C19_EmptyMeansNoItemsOrAllSkipped ==
    /\ TreeSound
    /\ pc = "save_results" => EmptyExplained(TRUE)

C19_Witness ==
    /\ pc = "save_results"
    /\ Len(results.provinces) = 2
    /\ results.provinces[2].code = P12
    /\ results.provinces[2].children = <<>>
    /\ HasFailed("kecamatan", <<P12, K1201>>)
    /\ Len(results.provinces[1].children) = 2

\* A step in which refresh_token is called and returns False: in the
\* constructor, at the entry of make_request, or after a 419.
FailedRefreshStep ==
    \/ pc = "construct" /\ init_refresh' = "failed"
    \/ rq.phase = "idle" /\ rq'.phase # "idle" /\ rq'.pre = "refresh_failed"
    \/ /\ rq.phase = "wait"
       /\ Len(rq'.hist) = Len(rq.hist) + 1
       /\ rq'.hist[Len(rq'.hist)].refresh = "failed"

\* last_token_refresh is not written: no timestamp stays no timestamp, and
\* the time elapsed since a timestamp does not start again.
TimestampKept ==
    /\ time_elapsed = Never => time_elapsed' = Never
    /\ time_elapsed # Never => time_elapsed' # Never /\ time_elapsed' >= time_elapsed
    /\ time_elapsed' = since_issue'

\* C20: a refresh_token call that fails leaves the X-CSRF-TOKEN header and
\* last_token_refresh as they were: an expired token stays expired and a
\* stored token is not discarded.
C20_FailedRefreshChangesNothing ==
    [][FailedRefreshStep =>
          /\ headers' = headers
          /\ TimestampKept
          /\ check_token_expiry(time_elapsed) => check_token_expiry(time_elapsed')]_vars

C20_Witness ==
    /\ InCall
    /\ \E i \in 1..Len(rq.hist) : rq.hist[i].refresh = "failed"
    /\ headers \in Tokens
    /\ ~check_token_expiry(time_elapsed)

====
